---------------------------- MODULE Spec2Model ----------------------------
(***************************************************************************)
(* pdftoast.py: main() and number_and_split_pages().                       *)
(*                                                                         *)
(* Strings are sequences of one-character strings.  Python floats are      *)
(* modelled as exact rationals [num, den] in lowest terms with den > 0;    *)
(* floating-point rounding is not modelled.  The verbose/debug commentary  *)
(* (print calls) has no effect on the state and is left out, and so is the *)
(* removal of the temporary files when the process ends (delete = not      *)
(* debug).  Ghostscript is outside the script: it either writes the        *)
(* flattened pages or leaves the second temporary file unreadable.         *)
(***************************************************************************)
EXTENDS Integers, Sequences, FiniteSets, TLC

\* ------------------------------------------------------------------ bounds
MaxSpecLen == 3      \* longest --pagespec argument
MaxPages   == 3      \* most pages of an input document
MaxDim     == 4      \* largest page width / height of the geometry study
MaxCrop    == 3      \* largest --cl / --mo of the geometry study
MaxAr      == 3      \* largest numerator / denominator of --ar there

\* ------------------------------------------------------------ characters
Digits == {"0", "1", "2", "3"}
Hyphen == "-"
Alphabet == Digits \cup {Hyphen, "a"}

RECURSIVE StringsUpTo(_)
StringsUpTo(n) ==
    IF n = 0 THEN {<< >>}
    ELSE LET shorter == StringsUpTo(n - 1)
         IN  shorter \cup {Append(s, c) : s \in {t \in shorter : Len(t) = n - 1},
                                          c \in Alphabet}

\* ------------------------------------------------------- Python builtins
\* str.split("-")
RECURSIVE split(_)
split(s) ==
    IF \A i \in 1..Len(s) : s[i] # Hyphen THEN << s >>
    ELSE LET i == CHOOSE j \in 1..Len(s) :
                      s[j] = Hyphen /\ \A k \in 1..(j - 1) : s[k] # Hyphen
         IN  << SubSeq(s, 1, i - 1) >> \o split(SubSeq(s, i + 1, Len(s)))

\* str.isdigit()
isdigit(s) == Len(s) > 0 /\ \A i \in 1..Len(s) : s[i] \in Digits

DigitValue(c) == CASE c = "0" -> 0 [] c = "1" -> 1 [] c = "2" -> 2 [] c = "3" -> 3
                   [] c = "4" -> 4 [] c = "5" -> 5 [] c = "6" -> 6 [] c = "7" -> 7
                   [] c = "8" -> 8 [] c = "9" -> 9

DigitChar(d) == CASE d = 0 -> "0" [] d = 1 -> "1" [] d = 2 -> "2" [] d = 3 -> "3"
                  [] d = 4 -> "4" [] d = 5 -> "5" [] d = 6 -> "6" [] d = 7 -> "7"
                  [] d = 8 -> "8" [] d = 9 -> "9"

\* int(s) raises ValueError unless s is a decimal literal; over Alphabet, and
\* after the split on "-", that is exactly a non-empty run of digits.
int_raises(s) == ~ isdigit(s)

RECURSIVE int(_)
int(s) == IF Len(s) = 0 THEN 0
          ELSE 10 * int(SubSeq(s, 1, Len(s) - 1)) + DigitValue(s[Len(s)])

\* str(n) for an integer n
RECURSIVE str(_)
str(n) == IF n < 0 THEN << Hyphen >> \o str(-n)
          ELSE IF n < 10 THEN << DigitChar(n) >>
          ELSE str(n \div 10) \o << DigitChar(n % 10) >>

\* range(start, stop): len() and indexing
range(start, stop) == [start |-> start, stop |-> stop]
range_len(r) == IF r.stop > r.start THEN r.stop - r.start ELSE 0
range_at(r, i) == r.start + i

\* ------------------------------------------------------------ float model
Abs(n) == IF n < 0 THEN -n ELSE n

RECURSIVE GCD(_, _)
GCD(a, b) == IF b = 0 THEN a ELSE GCD(b, a % b)

Rat(n, d) ==
    LET g == GCD(Abs(n), Abs(d))
        s == IF d < 0 THEN -1 ELSE 1
    IN  [num |-> (s * n) \div g, den |-> (s * d) \div g]

Num(k) == Rat(k, 1)
FAdd(a, b) == Rat(a.num * b.den + b.num * a.den, a.den * b.den)
FSub(a, b) == Rat(a.num * b.den - b.num * a.den, a.den * b.den)
FMul(a, b) == Rat(a.num * b.num, a.den * b.den)
FDiv(a, b) == Rat(a.num * b.den, a.den * b.num)     \* b # 0
FLt(a, b) == a.num * b.den < b.num * a.den
FLe(a, b) == a.num * b.den <= b.num * a.den
FMin(a, b) == IF FLe(a, b) THEN a ELSE b
FMax(a, b) == IF FLe(a, b) THEN b ELSE a
Zero == Num(0)


\* ------------------------------------------------------------------ state
VARIABLES
    pc,            \* position in main / number_and_split_pages
    exit_status,   \* process exit status once the run has ended, else -1
    env,           \* what the run finds: gs on the path, the input file
    args,          \* argparse result: pagespec, ar, cl, mo
    pagespec,      \* the list args.pagespec.split("-"), later its two ints
    input_opened,  \* PdfReader(inputfile) has been called
    number_pages,
    pagerange,
    page_width, page_height, half_height, cropped_width, half_overlap, crop_tb,
    writer,        \* pages of the first PdfWriter, with their annotations
    temp1, temp2,  \* the two temporary files
    writer2,       \* pages of the second PdfWriter
    outputfile     \* <stem>-toasted.pdf

mainVars == << pagespec, input_opened, number_pages, pagerange >>
geomVars == << page_width, page_height, half_height, cropped_width,
               half_overlap, crop_tb >>
fileVars == << writer, temp1, temp2, writer2, outputfile >>
vars == << pc, exit_status, env, args, pagespec, input_opened, number_pages,
           pagerange, page_width, page_height, half_height, cropped_width,
           half_overlap, crop_tb, writer, temp1, temp2, writer2, outputfile >>

NoFile == [exists |-> FALSE, readable |-> FALSE, pages |-> << >>]
File(ps) == [exists |-> TRUE, readable |-> TRUE, pages |-> ps]

\* Page sizes the script is written for (module docstring) and the argparse
\* defaults of --ar, --cl and --mo.
StandardBoxes == { << 612, 792 >>, << 595, 842 >> }
DefaultAr == Rat(134, 100)
DefaultCl == Num(35)
DefaultMo == Num(40)
DefaultPncol == "006600"

StartState ==
    /\ pc = "main"
    /\ exit_status = -1
    /\ pagespec = << >>
    /\ input_opened = FALSE
    /\ number_pages = 0
    /\ pagerange = range(0, 0)
    /\ page_width = Zero /\ page_height = Zero /\ half_height = Zero
    /\ cropped_width = Zero /\ half_overlap = Zero /\ crop_tb = Zero
    /\ writer = << >> /\ writer2 = << >>
    /\ temp1 = NoFile /\ temp2 = NoFile /\ outputfile = NoFile

\* Any command line, any environment; standard page sizes, default geometry.
Init ==
    /\ env \in [gs_on_path : BOOLEAN, input_is_pdf : BOOLEAN,
                pages : 0..MaxPages,
                bb : {<< 0, 0, b[1], b[2] >> : b \in StandardBoxes}]
    /\ args \in [pagespec : StringsUpTo(MaxSpecLen),
                 ar : {DefaultAr}, cl : {DefaultCl}, mo : {DefaultMo},
                 pncol : {DefaultPncol}]
    /\ StartState

\* The default page range on a readable one-page document; any geometry.
InitGeom ==
    /\ env \in [gs_on_path : {TRUE}, input_is_pdf : {TRUE}, pages : {1},
                bb : {<< 0, 0, w, h >> : w \in 1..MaxDim, h \in 1..MaxDim}]
    /\ args \in [pagespec : { << "1", Hyphen >> },
                 ar : {Rat(n, d) : n \in 0..MaxAr, d \in 1..MaxAr},
                 cl : {Num(c) : c \in 0..MaxCrop},
                 mo : {Num(m) : m \in 0..MaxCrop},
                 pncol : {DefaultPncol}]
    /\ StartState

Exit(status) == pc' = "exit" /\ exit_status' = status
\* An uncaught exception ends the interpreter with status 1.
Raise == pc' = "raised" /\ exit_status' = 1

\* ------------------------------------------------------------------- main
\* which('gs') is None
\* CheckGs without the test of which('gs')
CheckGsUnchecked ==
    /\ pc = "main"
    /\ pc' = "pagespec"
    /\ UNCHANGED << exit_status, env, args, mainVars, geomVars, fileVars >>

CheckGs ==
    /\ pc = "main"
    /\ IF ~ env.gs_on_path THEN Exit(1) ELSE pc' = "pagespec" /\ UNCHANGED exit_status
    /\ UNCHANGED << env, args, mainVars, geomVars, fileVars >>

\* args.pagespec.split("-") and the two tests on the result
\* CheckPagespec reading a bare number n as "n-n"
CheckPagespecSinglePage ==
    /\ pc = "pagespec"
    /\ LET parts == split(args.pagespec)
       IN  IF Len(parts) = 1 /\ isdigit(parts[1])
           THEN pagespec' = << parts[1], parts[1] >> /\ pc' = "call"
                /\ UNCHANGED exit_status
           ELSE /\ pagespec' = parts
                /\ IF Len(parts) # 2 THEN Exit(1)
                   ELSE pc' = "call" /\ UNCHANGED exit_status
    /\ UNCHANGED << env, args, input_opened, number_pages, pagerange,
                    geomVars, fileVars >>

CheckPagespec ==
    /\ pc = "pagespec"
    /\ pagespec' = split(args.pagespec)
    /\ IF Len(pagespec') = 1 /\ isdigit(pagespec'[1]) THEN Exit(1)
       ELSE IF Len(pagespec') # 2 THEN Exit(1)
       ELSE pc' = "call" /\ UNCHANGED exit_status
    /\ UNCHANGED << env, args, input_opened, number_pages, pagerange,
                    geomVars, fileVars >>

\* ------------------------------------------------- number_and_split_pages
\* reader = PdfReader(inputfile); number_pages = len(reader.pages)
OpenInput ==
    /\ pc = "call"
    /\ input_opened' = TRUE
    /\ IF ~ env.input_is_pdf
       THEN Raise /\ UNCHANGED number_pages
       ELSE pc' = "resolve" /\ number_pages' = env.pages /\ UNCHANGED exit_status
    /\ UNCHANGED << env, args, pagespec, pagerange, geomVars, fileVars >>

\* pagespec[0], pagespec[1] as the code rewrites them
\* ResolveStart keeping the one-based number
ResolveStartOneBased(s) == int(IF s = << >> THEN << "1" >> ELSE s)
ResolveStart(s) == int(IF s = << >> THEN << "1" >> ELSE s) - 1
ResolveStop(s, n) == int(IF s = << >> THEN str(n) ELSE s)

ResolveRange ==
    /\ pc = "resolve"
    /\ IF \/ (pagespec[1] # << >> /\ int_raises(pagespec[1]))
          \/ (pagespec[2] # << >> /\ int_raises(pagespec[2]))
       THEN Raise /\ UNCHANGED << pagespec, pagerange >>
       ELSE /\ pagespec' = << ResolveStart(pagespec[1]),
                              ResolveStop(pagespec[2], number_pages) >>
            /\ pagerange' = range(pagespec'[1], pagespec'[2])
            /\ pc' = "geometry"
            /\ UNCHANGED exit_status
    /\ UNCHANGED << env, args, input_opened, number_pages, geomVars, fileVars >>

\* The geometry: crop_tb as first computed, then the two adjusted values
NaiveCropTb(hh, ho, cw, ar) == FSub(FAdd(hh, ho), FDiv(cw, ar))
\* WidenedHalfOverlap without the widening
UnwidenedHalfOverlap(ho, ctb) == ho
WidenedHalfOverlap(ho, ctb) == IF FLt(ctb, Zero) THEN FSub(ho, ctb) ELSE ho
ClampedCropTb(ctb) == IF FLt(ctb, Zero) THEN Zero ELSE ctb

ComputeGeometry ==
    /\ pc = "geometry"
    /\ IF number_pages = 0 \/ args.ar = Zero
       THEN \* pages[0] raises IndexError; x / 0.0 raises ZeroDivisionError
            Raise /\ UNCHANGED geomVars
       ELSE LET bb == env.bb
                pw == Num(bb[3])
                ph == Num(bb[4])
                hh == FDiv(Num(bb[4]), Num(2))
                cw == FSub(pw, args.cl)
                ho == FDiv(args.mo, Num(2))
                ctb == NaiveCropTb(hh, ho, cw, args.ar)
            IN  /\ page_width' = pw
                /\ page_height' = ph
                /\ half_height' = hh
                /\ cropped_width' = cw
                /\ half_overlap' = WidenedHalfOverlap(ho, ctb)
                /\ crop_tb' = ClampedCropTb(ctb)
                /\ pc' = "annotate"
                /\ UNCHANGED exit_status
    /\ UNCHANGED << env, args, mainVars, fileVars >>

\* reader.pages[pn]: a negative index counts from the end
PageIndex(pn, n) == IF pn < 0 THEN n + pn ELSE pn
PageIndexRaises(pn, n) == PageIndex(pn, n) < 0 \/ PageIndex(pn, n) >= n
SourcePage(idx) == [page |-> idx, cropbox |-> << Num(env.bb[1]), Num(env.bb[2]),
                                                 Num(env.bb[3]), Num(env.bb[4]) >>,
                    baked |-> << >>]

add_page(w, page) == Append(w, [page |-> page, annots |-> << >>])
add_annotation(w, page_number, annotation) ==
    [w EXCEPT ![page_number + 1].annots = Append(@, annotation)]

PagenumberText(pn) == << " " >> \o str(1 + pn) \o << "/" >> \o str(number_pages)
AnnotationWidth == IF number_pages >= 100 THEN 56 ELSE 42

AnnotationTop(pn) ==
    [kind |-> "FreeText", text |-> PagenumberText(pn),
     rect |-> << FAdd(FSub(page_width, Num(AnnotationWidth)), Num(1)),
                 FSub(FSub(page_height, crop_tb), Num(43)),
                 FAdd(page_width, Num(1)),
                 FSub(FSub(page_height, crop_tb), Num(25)) >>,
     border_color |-> args.pncol, background_color |-> "ffffff", flags |-> 4]

AnnotationBottom(pn) ==
    [kind |-> "FreeText", text |-> PagenumberText(pn),
     rect |-> << FSub(page_width, Num(AnnotationWidth)),
                 FAdd(crop_tb, Num(22)),
                 FAdd(page_width, Num(1)),
                 FAdd(crop_tb, Num(3)) >>,
     border_color |-> "ffffff", background_color |-> args.pncol, flags |-> 4]

AnnotationOverlap ==
    [kind |-> "Line",
     p1 |-> << FSub(page_width, Num(3)), FAdd(half_height, half_overlap) >>,
     p2 |-> << FSub(page_width, Num(3)), FSub(half_height, half_overlap) >>,
     rect |-> << FSub(page_width, Num(3)), FAdd(half_height, half_overlap),
                 FSub(page_width, Num(3)), FSub(half_height, half_overlap) >>,
     flags |-> 4]

\* One pass of the loop body for index i, on the writer w
AnnotateStep(w, i) ==
    LET pn == range_at(pagerange, i)
        page == SourcePage(PageIndex(pn, number_pages))
        w1 == add_page(w, page)
        w2 == add_annotation(w1, i, AnnotationTop(pn))
        w3 == add_annotation(w2, i, AnnotationBottom(pn))
    IN  add_annotation(w3, i, AnnotationOverlap)

RECURSIVE AnnotateLoop(_, _)
AnnotateLoop(w, i) ==
    IF i >= range_len(pagerange) THEN w ELSE AnnotateLoop(AnnotateStep(w, i), i + 1)

Annotate ==
    /\ pc = "annotate"
    /\ IF \E i \in 0..(range_len(pagerange) - 1) :
              PageIndexRaises(range_at(pagerange, i), number_pages)
       THEN Raise /\ UNCHANGED writer
       ELSE writer' = AnnotateLoop(<< >>, 0) /\ pc' = "temp1" /\ UNCHANGED exit_status
    /\ UNCHANGED << env, args, mainVars, geomVars, temp1, temp2, writer2, outputfile >>

\* tempfile.NamedTemporaryFile, compress_identical_objects, writer.write
WriteTemp1 ==
    /\ pc = "temp1"
    /\ temp1' = File(writer)
    /\ pc' = "flatten"
    /\ UNCHANGED << exit_status, env, args, mainVars, geomVars, writer, temp2,
                    writer2, outputfile >>

\* Ghostscript with -dPreserveAnnots=false draws each annotation into the page
FlattenPage(p) == [page |-> p.page.page, cropbox |-> p.page.cropbox, baked |-> p.annots]
Flattened(ps) == [k \in 1..Len(ps) |-> FlattenPage(ps[k])]

\* The second temporary file is created empty; subprocess.call returns whatever
\* gs returns and the code does not look at it.
Flatten ==
    /\ pc = "flatten"
    /\ \E gs_ok \in BOOLEAN :
          temp2' = [exists |-> TRUE, readable |-> gs_ok,
                    pages |-> IF gs_ok THEN Flattened(temp1.pages) ELSE << >>]
    /\ pc' = "split"
    /\ UNCHANGED << exit_status, env, args, mainVars, geomVars, writer, temp1,
                    writer2, outputfile >>

\* CropboxTop without the vertical crop
CropboxTopUncropped == << args.cl, FSub(half_height, half_overlap),
                          page_width, page_height >>
\* CropboxBottom ending at mid-page
CropboxBottomNoOverlap == << args.cl, crop_tb, page_width, half_height >>

CropboxTop == << args.cl, FSub(half_height, half_overlap),
                 page_width, FSub(page_height, crop_tb) >>
CropboxBottom == << args.cl, crop_tb, page_width, FAdd(half_height, half_overlap) >>

\* SplitStep adding the bottom half first
SplitStepBottomFirst(w2, reader_top, reader_bottom, i) ==
    LET page_top == [reader_top[i + 1] EXCEPT !.cropbox = CropboxTop]
        page_bottom == [reader_bottom[i + 1] EXCEPT !.cropbox = CropboxBottom]
    IN  Append(Append(w2, page_bottom), page_top)

\* One pass of the split loop: reader_top and reader_bottom are two readers of
\* the same file, so page_top and page_bottom are two objects.
SplitStep(w2, reader_top, reader_bottom, i) ==
    LET page_top == [reader_top[i + 1] EXCEPT !.cropbox = CropboxTop]
        page_bottom == [reader_bottom[i + 1] EXCEPT !.cropbox = CropboxBottom]
    IN  Append(Append(w2, page_top), page_bottom)

RECURSIVE SplitLoop(_, _, _, _)
SplitLoop(w2, reader_top, reader_bottom, i) ==
    IF i >= range_len(pagerange) THEN w2
    ELSE SplitLoop(SplitStep(w2, reader_top, reader_bottom, i),
                   reader_top, reader_bottom, i + 1)

SplitPages ==
    /\ pc = "split"
    /\ IF ~ temp2.readable \/ range_len(pagerange) > Len(temp2.pages)
       THEN \* PdfReader raises on an empty file; pages[i] raises IndexError
            Raise /\ UNCHANGED writer2
       ELSE /\ writer2' = SplitLoop(<< >>, temp2.pages, temp2.pages, 0)
            /\ pc' = "output"
            /\ UNCHANGED exit_status
    /\ UNCHANGED << env, args, mainVars, geomVars, writer, temp1, temp2, outputfile >>

\* compress_identical_objects, writer2.write, return(outputfile)
WriteOutput ==
    /\ pc = "output"
    /\ outputfile' = File(writer2)
    /\ pc' = "done"
    /\ exit_status' = 0
    /\ UNCHANGED << env, args, mainVars, geomVars, writer, temp1, temp2, writer2 >>

Next ==
    \/ CheckGs
    \/ CheckPagespec
    \/ OpenInput
    \/ ResolveRange
    \/ ComputeGeometry
    \/ Annotate
    \/ WriteTemp1
    \/ Flatten
    \/ SplitPages
    \/ WriteOutput

Spec == Init /\ [][Next]_vars
SpecGeom == InitGeom /\ [][Next]_vars

\* ----------------------------------------------------------------- claims
PastResolve == pc \in {"geometry", "annotate", "temp1", "flatten", "split",
                       "output", "done"}
PastGeometry == pc \in {"annotate", "temp1", "flatten", "split", "output", "done"}
PastAnnotate == pc \in {"temp1", "flatten", "split", "output", "done"}
PastSplit == pc \in {"output", "done"}
NoFileIO == /\ ~ input_opened
            /\ ~ temp1.exists /\ ~ temp2.exists /\ ~ outputfile.exists

NumHyphens(s) == Cardinality({i \in 1..Len(s) : s[i] = Hyphen})
Dash == << Hyphen >>
ClaimValues == 0..(MaxPages + 2)

\* C1: once the page range is resolved, "a-b" with 1 <= a <= b <= N has given
\* exactly [a-1, b), of length b-a+1; "1-" and "-" have given [0, N); "-b" has
\* given [0, b) and "a-" has given [a-1, N); and in general "a-b" gives
\* [a-1, b) whatever the numbers a and b.
C1_PageRangeResolution ==
    PastResolve =>
      LET N == number_pages
          p == args.pagespec
      IN  /\ \A a \in 1..N : \A b \in a..N :
                p = str(a) \o Dash \o str(b) =>
                   /\ pagerange = range(a - 1, b)
                   /\ range_len(pagerange) = b - a + 1
                   /\ \A i \in 0..(b - a) : range_at(pagerange, i) = a - 1 + i
          /\ p \in {<< "1", Hyphen >>, Dash} => pagerange = range(0, N)
          /\ \A a \in ClaimValues : \A b \in ClaimValues :
                /\ p = str(a) \o Dash \o str(b) => pagerange = range(a - 1, b)
                /\ p = Dash \o str(b) => pagerange = range(0, b)
                /\ p = str(a) \o Dash => pagerange = range(a - 1, N)

C1_Witness ==
    /\ PastResolve
    /\ args.pagespec = << "2", Hyphen, "3" >>
    /\ number_pages = 3
    /\ pagerange = range(1, 3)

\* The half-page boxes as the claims give them
TopHalfBox == << args.cl, FSub(half_height, half_overlap),
                 page_width, FSub(page_height, crop_tb) >>
BottomHalfBox == << args.cl, crop_tb, page_width, FAdd(half_height, half_overlap) >>

\* C2: after the split, output page 2k is flattened page k with the top-half
\* box and output page 2k+1 is the same flattened page with the bottom-half
\* box, for every k below the length L of the page range; there are exactly
\* 2*L output pages, in the order of the selected pages, and the output file
\* holds them.
C2_SplitOrder ==
    PastSplit =>
      LET L == range_len(pagerange)
      IN  /\ Len(writer2) = 2 * L
          /\ Len(temp2.pages) = L
          /\ \A k \in 0..(L - 1) :
                /\ writer2[2 * k + 1] = [temp2.pages[k + 1] EXCEPT !.cropbox = TopHalfBox]
                /\ writer2[2 * k + 2] = [temp2.pages[k + 1] EXCEPT !.cropbox = BottomHalfBox]
                /\ temp2.pages[k + 1].page = writer[k + 1].page.page
                /\ temp2.pages[k + 1].baked = writer[k + 1].annots
          /\ pc = "done" => outputfile.exists /\ outputfile.pages = writer2

C2_Witness ==
    /\ pc = "done"
    /\ range_len(pagerange) = 2
    /\ Len(outputfile.pages) = 4
    /\ TopHalfBox # BottomHalfBox

\* The inputs of the geometry, and the offset before clamping
InW == Num(env.bb[3])
InH == Num(env.bb[4])
HalfMo == FDiv(args.mo, Num(2))
TargetHeight == FDiv(FSub(InW, args.cl), args.ar)
NaiveOffset == FSub(FAdd(FDiv(InH, Num(2)), HalfMo), TargetHeight)
ValidParams == /\ FLt(Zero, InW) /\ FLt(Zero, InH) /\ FLt(Zero, args.ar)
               /\ FLe(Zero, args.cl) /\ FLe(Zero, args.mo)

\* C3: for valid parameters the computed crop_tb is >= 0 and half_overlap is
\* >= mo/2; when the naive offset is negative, crop_tb is 0 and half_overlap
\* is mo/2 minus the naive offset, strictly more than mo/2; otherwise
\* half_overlap is mo/2 and crop_tb is the naive offset.
C3_DerivedGeometry ==
    (PastGeometry /\ ValidParams) =>
      /\ FLe(Zero, crop_tb)
      /\ FLe(HalfMo, half_overlap)
      /\ IF FLt(NaiveOffset, Zero)
         THEN /\ crop_tb = Zero
              /\ FLt(HalfMo, half_overlap)
              /\ half_overlap = FSub(HalfMo, NaiveOffset)
         ELSE /\ half_overlap = HalfMo
              /\ crop_tb = NaiveOffset

C3_Witness ==
    /\ PastGeometry /\ ValidParams
    /\ FLt(NaiveOffset, Zero)
    /\ FLt(Zero, args.mo)
    /\ crop_tb = Zero

\* The vertical extents of the two output boxes of the first page
TopLo == writer2[1].cropbox[2]
TopHi == writer2[1].cropbox[4]
BotLo == writer2[2].cropbox[2]
BotHi == writer2[2].cropbox[4]
BoxesAsStated == /\ writer2[1].cropbox = TopHalfBox
                 /\ writer2[2].cropbox = BottomHalfBox
\* the two extents are intervals, leave no gap, and span exactly [lo, hi]
CoverExactly(lo, hi) ==
    /\ FLe(TopLo, TopHi) /\ FLe(BotLo, BotHi)
    /\ FLe(FMax(TopLo, BotLo), FMin(TopHi, BotHi))
    /\ FMin(TopLo, BotLo) = lo
    /\ FMax(TopHi, BotHi) = hi
IntersectExactly(lo, hi) ==
    /\ FMax(TopLo, BotLo) = lo
    /\ FMin(TopHi, BotHi) = hi
Coverage ==
    /\ CoverExactly(crop_tb, FSub(page_height, crop_tb))
    /\ IntersectExactly(FSub(half_height, half_overlap),
                        FAdd(half_height, half_overlap))
OverlapAtLeastMo == FLe(args.mo, FMul(Num(2), half_overlap))

\* C4 as stated: for every valid parameter choice the two crop boxes are the
\* stated ones, cover exactly [crop_tb, page_height - crop_tb], intersect in
\* exactly [half_height - half_overlap, half_height + half_overlap], and that
\* intersection is at least mo high.
C4_CoverageAsStated ==
    (PastSplit /\ ValidParams) =>
      BoxesAsStated /\ Coverage /\ OverlapAtLeastMo

\* C4 amended: the boxes are the stated ones and 2*half_overlap >= mo for
\* every valid parameter choice; the cover and the intersection are as stated
\* exactly when mo <= (page_width - cl)/ar <= page_height.
FitsPage == FLe(args.mo, TargetHeight) /\ FLe(TargetHeight, InH)
C4_CoverageWhenFits ==
    (PastSplit /\ ValidParams) =>
      /\ BoxesAsStated
      /\ OverlapAtLeastMo
      /\ Coverage <=> FitsPage

C4_Witness ==
    /\ PastSplit /\ ValidParams /\ FitsPage
    /\ FLt(Zero, crop_tb)
    /\ FLt(Zero, half_overlap)
    /\ Coverage

\* C5: for every ar > 0, clamped or not, both output boxes are
\* page_width - cl wide and have the same height h, with h * ar = page_width - cl.
C5_AspectRatioExact ==
    (PastSplit /\ FLt(Zero, args.ar)) =>
      LET top == writer2[1].cropbox
          bot == writer2[2].cropbox
          h == FSub(top[4], top[2])
      IN  /\ FSub(top[3], top[1]) = FSub(InW, args.cl)
          /\ FSub(bot[3], bot[1]) = FSub(InW, args.cl)
          /\ FSub(bot[4], bot[2]) = h
          /\ FMul(h, args.ar) = FSub(InW, args.cl)

C5_Witness ==
    /\ PastSplit /\ FLt(Zero, args.ar)
    /\ FLt(NaiveOffset, Zero)
    /\ FLt(Zero, args.cl)
    /\ args.ar # Num(1)

\* C6: a pagespec that does not split on "-" into exactly two parts (a bare
\* number among them) gets no further than the pagespec test: the run exits
\* with status 1, number_and_split_pages is not called, the page range is
\* never resolved and no file is opened or written.
C6_UsageError ==
    NumHyphens(args.pagespec) # 1 =>
      /\ pc \in {"main", "pagespec", "exit"}
      /\ pc = "exit" => exit_status = 1
      /\ pagerange = range(0, 0)
      /\ NoFileIO

C6_Witness ==
    /\ pc = "exit" /\ exit_status = 1
    /\ env.gs_on_path
    /\ args.pagespec = << "3" >>
    /\ pagespec = << << "3" >> >>

\* C7: with gs not on the path the run exits with status 1 straight from the
\* dependency check, before the input is opened and before any temporary or
\* output file exists; whenever a temporary file exists gs was on the path.
C7_MissingGs ==
    /\ ~ env.gs_on_path =>
         /\ pc \in {"main", "exit"}
         /\ pc = "exit" => exit_status = 1
         /\ NoFileIO
    /\ (temp1.exists \/ temp2.exists) => (env.gs_on_path /\ pc # "main")

C7_Witness ==
    /\ ~ env.gs_on_path
    /\ pc = "exit" /\ exit_status = 1
    /\ args.pagespec = << "1", Hyphen >>
    /\ NoFileIO

\* C8: whenever the output file is written the resolved range satisfies
\* 0 <= start < end <= N (an out-of-bounds range aborts before any output).
C8_RangeInBounds ==
    outputfile.exists =>
      /\ 0 <= pagerange.start
      /\ pagerange.start < pagerange.stop
      /\ pagerange.stop <= number_pages

\* C9: the intermediate document holds exactly the selected pages in range
\* order; its k-th page is page start+k of the input, carries exactly three
\* annotations (top label, bottom label, overlap line), and both labels read
\* " <start+k+1>/<N>", the page's one-based position in the input document.
C9_AnnotatedPages ==
    PastAnnotate =>
      /\ Len(writer) = range_len(pagerange)
      /\ temp1.exists => temp1.pages = writer
      /\ \A k \in 0..(range_len(pagerange) - 1) :
            LET p == writer[k + 1]
                label == << " " >> \o str(p.page.page + 1) \o << "/" >> \o str(number_pages)
            IN  /\ p.page.page = pagerange.start + k
                /\ Len(p.annots) = 3
                /\ p.annots[1].kind = "FreeText" /\ p.annots[1].text = label
                /\ p.annots[2].kind = "FreeText" /\ p.annots[2].text = label
                /\ p.annots[3].kind = "Line"

\* C10: a malformed pagespec (one that does not split into two parts, or a
\* part that is neither empty nor a positive integer) and a missing gs both
\* end the run in its error outcome with no file opened or created.
PositiveInteger(s) == isdigit(s) /\ \E i \in 1..Len(s) : s[i] # "0"
Malformed(s) ==
    \/ NumHyphens(s) # 1
    \/ \E part \in {split(s)[1], split(s)[2]} : part # << >> /\ ~ PositiveInteger(part)
C10_EagerValidation ==
    (~ env.gs_on_path \/ Malformed(args.pagespec)) =>
      /\ NoFileIO
      /\ pc \notin {"done"}

=============================================================================
